---------------------------- MODULE Spec2Model ----------------------------
(***************************************************************************)
(* A model of libbpf-cargo's build pipeline (libbpf-cargo/src/build.rs):   *)
(* build() obtains the batch from metadata::get, runs check_progs and      *)
(* check_clang and then compile(), and maps every outcome to a status.     *)
(*                                                                         *)
(* Text is modelled as a sequence of atoms (a word, a number, a separator  *)
(* character, a byte that is not valid UTF-8); a path is a directory and   *)
(* the atoms of its last component.                                        *)
(***************************************************************************)
EXTENDS Integers, Sequences, FiniteSets, TLC

\* The longest batch the discovery collaborator hands over.
MaxProgs == 3

(***************************************************************************)
(* Paths                                                                   *)
(***************************************************************************)
MkPath(d, n) == [dir |-> d, name |-> n]

\* Path::file_name: None (<<>>) when the path terminates in "..",
\* otherwise the last component.
file_name(p) == IF p.name = <<".", ".">> THEN <<>> ELSE p.name

\* The position of the last "." of a file name, 0 when it has none.
LastDot(n) ==
    LET dots == {i \in DOMAIN n : n[i] = "."}
    IN  IF dots = {} THEN 0 ELSE CHOOSE i \in dots : \A j \in dots : j <= i

\* Path::file_stem: None (<<>>) when there is no file name; the whole name
\* when it has no "." or only a leading one; else the part before the last ".".
file_stem(p) ==
    LET n == file_name(p)
        k == LastDot(n)
    IN  IF n = <<>> THEN <<>>
        ELSE IF k <= 1 THEN n
        ELSE SubSeq(n, 1, k - 1)

\* Path::join / PathBuf::push of a relative file name onto a directory.
join(d, n) == MkPath(d, n)

\* A path as the text handed to a subprocess or printed.
as_os_str(p) == <<p.dir, "/">> \o p.name

(***************************************************************************)
(* The batches metadata::get can return: descriptors whose source path has *)
(* a file name, in any order, repetitions included.                        *)
(***************************************************************************)
\* metadata::UnprocessedProg { path, out }
UnprocessedProg(path, out) == [path |-> path, out |-> out]

\* The descriptors of the model: the same file name from two source
\* directories into one output directory, the same source into a second
\* output directory, a second file name with the same stem, and a name
\* without extension.
Descriptors ==
    { UnprocessedProg(MkPath("s1", <<"a", ".", "c">>), "o1"),
      UnprocessedProg(MkPath("s2", <<"a", ".", "c">>), "o1"),
      UnprocessedProg(MkPath("s1", <<"a", ".", "c">>), "o2"),
      UnprocessedProg(MkPath("s1", <<"a", ".", "h">>), "o1"),
      UnprocessedProg(MkPath("s1", <<"b">>), "o1") }

SeqsUpTo(S, n) == UNION { [1..m -> S] : m \in 0..n }

Batches == SeqsUpTo(Descriptors, MaxProgs)

\* metadata::get: Err, or Ok(v).
DiscoveryResults ==
    {[ok |-> FALSE, progs |-> <<>>]} \cup {[ok |-> TRUE, progs |-> b] : b \in Batches}

(***************************************************************************)
(* Text helpers                                                            *)
(***************************************************************************)
\* A byte sequence that is not valid UTF-8, and what a lossy decoding
\* leaves in its place.
BadByte == "\\xFF"
Replacement == "U+FFFD"

\* String::from_utf8_lossy
from_utf8_lossy(bytes) ==
    [j \in DOMAIN bytes |-> IF bytes[j] = BadByte THEN Replacement ELSE bytes[j]]

\* String::from_utf8(..).is_ok()
valid_utf8(bytes) == \A j \in DOMAIN bytes : bytes[j] # BadByte

\* The position of the first sep in s, 0 when there is none.
FirstAt(s, sep) ==
    LET at == {j \in DOMAIN s : s[j] = sep}
    IN  IF at = {} THEN 0 ELSE CHOOSE j \in at : \A m \in at : j <= m

\* str::split(sep): the pieces between separators, empty pieces kept; never
\* an empty list.
RECURSIVE split(_, _)
split(s, sep) ==
    LET j == FirstAt(s, sep)
    IN  IF j = 0 THEN <<s>>
        ELSE <<SubSeq(s, 1, j - 1)>> \o split(SubSeq(s, j + 1, Len(s)), sep)

\* Iterator::nth(n) (zero-based) as a sequence of zero or one element.
nth(items, n) == IF Len(items) > n THEN <<items[n + 1]>> ELSE <<>>

(***************************************************************************)
(* semver::Version                                                         *)
(***************************************************************************)
\* The numeric atoms the model's outputs use, with their values.
Numerals ==
    ("0" :> 0) @@ ("1" :> 1) @@ ("9" :> 9) @@ ("10" :> 10) @@ ("12" :> 12)

IsNumeral(a) == a \in DOMAIN Numerals

\* Version::parse(..).is_ok(): MAJOR.MINOR.PATCH, optionally -PRERELEASE.
version_parses(tok) ==
    /\ Len(tok) \in {5, 7}
    /\ IsNumeral(tok[1]) /\ tok[2] = "." /\ IsNumeral(tok[3])
    /\ tok[4] = "." /\ IsNumeral(tok[5])
    /\ Len(tok) = 7 => (tok[6] = "-" /\ tok[7] \notin {".", "-", " ", "\t", BadByte, Replacement})

\* Version::parse of a token that parses.
version_parse(tok) ==
    [major |-> Numerals[tok[1]], minor |-> Numerals[tok[3]],
     patch |-> Numerals[tok[5]],
     pre   |-> IF Len(tok) = 7 THEN <<tok[7]>> ELSE <<>>]

\* impl Display for Version
NumeralOf(n) == CHOOSE a \in DOMAIN Numerals : Numerals[a] = n

version_display(v) ==
    <<NumeralOf(v.major), ".", NumeralOf(v.minor), ".", NumeralOf(v.patch)>>
        \o (IF v.pre = <<>> THEN <<>> ELSE <<"-">> \o v.pre)

\* An ordering that looks at the numbers only.
version_lt_numbers(v, w) ==
    \/ v.major < w.major
    \/ v.major = w.major /\ v.minor < w.minor
    \/ v.major = w.major /\ v.minor = w.minor /\ v.patch < w.patch

\* impl Ord for Version, as v < w, for a w without pre-release: major, minor,
\* patch in turn, then a pre-release ranks below the release.
version_lt(v, w) ==
    \/ v.major < w.major
    \/ v.major = w.major /\ v.minor < w.minor
    \/ v.major = w.major /\ v.minor = w.minor /\ v.patch < w.patch
    \/ v.major = w.major /\ v.minor = w.minor /\ v.patch = w.patch
         /\ v.pre # <<>> /\ w.pre = <<>>

\* Version::parse("10.0.0").unwrap()
MinVersion == version_parse(<<"10", ".", "0", ".", "0">>)

(***************************************************************************)
(* What the environment can answer                                         *)
(***************************************************************************)
\* What `clang --version` can print.
VersionOutputs ==
    { <<"clang", " ", "version", " ", "10", ".", "0", ".", "0", "\n", "Target">>,
      <<"fakecc", " ", "version", " ", "9", ".", "0", ".", "0", "\n">>,
      <<"fakecc", " ", "version", " ", "12", ".", "0", ".", "1", "\n">>,
      <<"clang", " ", "version", " ", "9", ".", "12", ".", "1", "\n">>,
      <<"clang", " ", "version", " ", "10", ".", "0", ".", "0", "-", "rc1", "\n">>,
      <<"clang", " ", "version", " ", "10", ".", "0", "\n">>,
      <<"clang", " ", " ", "version", " ", "10", ".", "0", ".", "0", "\n">>,
      <<"clang", "\t", "version", "\t", "10", ".", "0", ".", "0", "\n">>,
      <<"clang", " ", "version">>,
      <<BadByte>>,
      <<>> }

\* Command::output() of the --version probe: an I/O error (started = FALSE),
\* or the exit status and the captured standard output.
ProbeResults ==
    { [started |-> FALSE, success |-> FALSE, stdout |-> <<>>, stderr |-> <<>>] }
        \cup { [started |-> TRUE, success |-> FALSE, stdout |-> o, stderr |-> <<>>] :
                 o \in {<<>>, <<"clang", " ", "version", " ", "10", ".", "0", ".", "0", "\n">>} }
        \cup { [started |-> TRUE, success |-> TRUE, stdout |-> o, stderr |-> <<>>] :
                 o \in VersionOutputs }

\* Command::output() of a compile: an I/O error, a zero exit, or a non-zero
\* exit with captured output that is or is not valid UTF-8.
CompileResults ==
    { [started |-> FALSE, success |-> FALSE, stdout |-> <<>>, stderr |-> <<>>],
      [started |-> TRUE, success |-> TRUE, stdout |-> <<>>, stderr |-> <<"warning">>],
      [started |-> TRUE, success |-> FALSE, stdout |-> <<>>, stderr |-> <<"error", "\n", "1 error">>],
      [started |-> TRUE, success |-> FALSE, stdout |-> <<BadByte>>, stderr |-> <<"error">>],
      [started |-> TRUE, success |-> FALSE, stdout |-> <<"note">>, stderr |-> <<"error", BadByte>>] }

\* The values std::env::consts::ARCH takes in the model.
Archs == {"x86_64", "aarch64", "x86"}

\* The clang argument of build, as text.
ClangPath == <<"clang">>

(***************************************************************************)
(* State                                                                   *)
(***************************************************************************)
VARIABLES
    debug,        \* build's debug argument
    skip_clang_version_checks,
    discovered,   \* what metadata::get returns in this run
    ARCH,         \* std::env::consts::ARCH of this build of the tool
    pc,           \* where build is: discover, check_progs, check_clang,
                  \*   compile, done (returned), panicked (unwinding)
    ret,          \* <<>> until build returns, then <<status>>
    to_compile,   \* build's local
    set,          \* check_progs' HashSet
    i,            \* check_progs: the next descriptor of its loop
    k,            \* compile: the next descriptor of its loop
    sys,          \* directories created and subprocesses run, in order
    console,      \* lines printed, in order
    err           \* the error a stage returned, kind "None" until one does

vars == <<debug, skip_clang_version_checks, discovered, ARCH, pc, ret, to_compile,
          set, i, k, sys, console, err>>

NoError == [kind |-> "None", msg |-> <<>>]
Error(kind, msg) == [kind |-> kind, msg |-> msg]

Out(text) == [stream |-> "stdout", text |-> text]
ErrOut(text) == [stream |-> "stderr", text |-> text]

\* An entry of sys.  ev: "mkdir", "probe" (clang --version) or "compile";
\* prog: the descriptor's position in the batch (0 for the probe);
\* started: the directory call was made / the subprocess was spawned;
\* success: the directory exists / the subprocess exited with status zero.
SysEvent(ev, prog, args, r) ==
    [ev |-> ev, prog |-> prog, args |-> args, started |-> r.started,
     success |-> r.success, stdout |-> r.stdout, stderr |-> r.stderr]

MkdirResult(okay) ==
    [started |-> TRUE, success |-> okay, stdout |-> <<>>, stderr |-> <<>>]

\* The state when build is entered, for the results metadata::get may give.
InitWith(results) ==
    /\ debug \in BOOLEAN
    /\ skip_clang_version_checks \in BOOLEAN
    /\ discovered \in results
    /\ ARCH \in Archs
    /\ pc = "discover"
    /\ ret = <<>>
    /\ to_compile = <<>>
    /\ set = {}
    /\ i = 1
    /\ k = 1
    /\ sys = <<>>
    /\ console = <<>>
    /\ err = NoError

Init == InitWith(DiscoveryResults)

\* `return status` from build.
Return(status) == /\ pc' = "done" /\ ret' = <<status>>

\* An unwrap() of None or Err: build never returns.
Panic == /\ pc' = "panicked" /\ ret' = <<>>

inputs == <<debug, skip_clang_version_checks, discovered, ARCH>>

\* The inputs other than debug.
fixed == <<skip_clang_version_checks, discovered, ARCH>>

\* The lines a step prints, after those printed so far; debug stays as it is.
Prints(lines) == /\ console' = console \o lines /\ UNCHANGED debug

(***************************************************************************)
(* build, lines 141-157: the discovery result and the empty batch          *)
(***************************************************************************)
DebugProg(prog) == Out(<<"\t">> \o as_os_str(prog.path) \o <<" -> ", prog.out>>)

\* Line 149: the batch is echoed.
echo_always(dbg, progs) == dbg

echo_progs(dbg, progs) == dbg /\ progs # <<>>

\* What Discover does to everything but the console, with debug = dbg.
DiscoverCore(dbg) ==
    /\ pc = "discover"
    /\ IF ~discovered.ok
       THEN /\ err' = Error("DiscoveryError", <<"discovery error">>)
            /\ Return(1)
            /\ UNCHANGED to_compile
       ELSE /\ to_compile' = discovered.progs
            /\ IF echo_progs(dbg, discovered.progs)
               THEN /\ pc' = "check_progs"
                    /\ UNCHANGED <<ret, err>>
               ELSE IF discovered.progs = <<>>
               THEN /\ err' = Error("EmptyProgramSet", <<"Did not find any bpf progs to compile">>)
                    /\ Return(1)
               ELSE /\ pc' = "check_progs"
                    /\ UNCHANGED <<ret, err>>
    /\ UNCHANGED <<fixed, set, i, k, sys>>

\* The lines Discover prints (144, 150-153, 155).
DiscoverLines(dbg) ==
    IF ~discovered.ok THEN <<ErrOut(<<"discovery error">>)>>
    ELSE IF echo_progs(dbg, discovered.progs)
    THEN <<Out(<<"Found bpf progs to compile:">>)>>
            \o [j \in DOMAIN discovered.progs |-> DebugProg(discovered.progs[j])]
    ELSE IF discovered.progs = <<>>
    THEN <<ErrOut(<<"Did not find any bpf progs to compile">>)>>
    ELSE <<>>

Discover == DiscoverCore(debug) /\ Prints(DiscoverLines(debug))

(***************************************************************************)
(* check_progs, lines 12-29, one descriptor of its loop per step           *)
(***************************************************************************)
\* A key that leaves the output directory out.
CheckDestNameOnly(prog) == join("", file_name(prog.path))

\* The key check_progs inserts for a descriptor (lines 16-19).
CheckDest(prog) == join(prog.out, file_name(prog.path))

\* The message of the bail! at lines 21-24.
DuplicateMsg(prog) == <<"Duplicate prog=">> \o file_name(prog.path) \o <<" detected">>

CheckProgCore ==
    /\ pc = "check_progs"
    /\ i <= Len(to_compile)
    /\ LET prog == to_compile[i]
       IN  IF file_name(prog.path) = <<>>
           THEN \* file_name().unwrap() of None
                /\ Panic
                /\ UNCHANGED <<set, i, err>>
           ELSE IF CheckDest(prog) \in set
           THEN /\ err' = Error("DuplicateOutput", DuplicateMsg(prog))
                /\ Return(1)
                /\ UNCHANGED <<set, i>>
           ELSE /\ set' = set \cup {CheckDest(prog)}
                /\ i' = i + 1
                /\ UNCHANGED <<pc, ret, err>>
    /\ UNCHANGED <<fixed, to_compile, k, sys>>

\* Line 160: build prints the error of check_progs.
CheckProgLines ==
    LET prog == to_compile[i]
    IN  IF file_name(prog.path) # <<>> /\ CheckDest(prog) \in set
        THEN <<ErrOut(DuplicateMsg(prog))>>
        ELSE <<>>

CheckProg == CheckProgCore /\ Prints(CheckProgLines)

\* The loop is over: Ok(()), and build goes on to check_clang.
CheckProgsOkCore ==
    /\ pc = "check_progs"
    /\ i > Len(to_compile)
    /\ pc' = "check_clang"
    /\ UNCHANGED <<fixed, ret, to_compile, set, i, k, sys, err>>

CheckProgsOk == CheckProgsOkCore /\ Prints(<<>>)

(***************************************************************************)
(* check_clang, lines 31-71                                                *)
(***************************************************************************)
\* The third space-separated piece of the first line (lines 49-56), as a
\* sequence of zero or one token.
version_str(stdout) ==
    nth(split(split(from_utf8_lossy(stdout), "\n")[1], " "), 2)

\* The message without the version it is about.
TooOldMsgBare(v) ==
    <<"version is too old. Use --skip-clang-version-checks to skip verion check">>

\* Lines 64-67.
TooOldMsg(v) ==
    <<"version ">> \o version_display(v)
        \o <<" is too old. Use --skip-clang-version-checks to skip verion check">>

\* check_clang with its result dropped.
check_clang_ignored(r, skip_version_checks) == NoError

\* check_clang with the skip test ahead of the exit-status test.
check_clang_skip_first(r, skip_version_checks) ==
    IF ~r.started THEN Error("ToolchainUnavailable", <<"No such file or directory">>)
    ELSE IF skip_version_checks THEN NoError
    ELSE IF ~r.success THEN Error("ToolchainUnavailable", <<"Failed to execute clang binary">>)
    ELSE IF version_str(r.stdout) = <<>>
         THEN Error("InvalidVersionFormat", <<"Invalid version format">>)
    ELSE IF ~version_parses(version_str(r.stdout)[1])
         THEN Error("InvalidVersionFormat", <<"Error parsing version">>)
    ELSE IF version_lt(version_parse(version_str(r.stdout)[1]), MinVersion)
         THEN Error("ToolchainTooOld", TooOldMsg(version_parse(version_str(r.stdout)[1])))
    ELSE NoError

\* check_clang with the skip test after the parse: only the floor is skipped.
check_clang_skip_floor(r, skip_version_checks) ==
    IF ~r.started THEN Error("ToolchainUnavailable", <<"No such file or directory">>)
    ELSE IF ~r.success THEN Error("ToolchainUnavailable", <<"Failed to execute clang binary">>)
    ELSE IF version_str(r.stdout) = <<>>
         THEN Error("InvalidVersionFormat", <<"Invalid version format">>)
    ELSE IF ~version_parses(version_str(r.stdout)[1])
         THEN Error("InvalidVersionFormat", <<"Error parsing version">>)
    ELSE IF skip_version_checks THEN NoError
    ELSE IF version_lt(version_parse(version_str(r.stdout)[1]), MinVersion)
         THEN Error("ToolchainTooOld", TooOldMsg(version_parse(version_str(r.stdout)[1])))
    ELSE NoError

\* The Result of check_clang for what the probe returned.
check_clang(r, skip_version_checks) ==
    IF ~r.started THEN Error("ToolchainUnavailable", <<"No such file or directory">>)
    ELSE IF ~r.success THEN Error("ToolchainUnavailable", <<"Failed to execute clang binary">>)
    ELSE IF skip_version_checks THEN NoError
    ELSE IF version_str(r.stdout) = <<>>
         THEN Error("InvalidVersionFormat", <<"Invalid version format">>)
    ELSE IF ~version_parses(version_str(r.stdout)[1])
         THEN Error("InvalidVersionFormat", <<"Error parsing version">>)
    ELSE IF version_lt(version_parse(version_str(r.stdout)[1]), MinVersion)
         THEN Error("ToolchainTooOld", TooOldMsg(version_parse(version_str(r.stdout)[1])))
    ELSE NoError

\* Line 59-61: the line check_clang prints once the version parsed.
check_clang_prints(dbg, r, skip_version_checks) ==
    IF /\ dbg /\ r.started /\ r.success /\ ~skip_version_checks
       /\ version_str(r.stdout) # <<>>
       /\ version_parses(version_str(r.stdout)[1])
    THEN <<Out(ClangPath \o <<" is version ">>
                 \o version_display(version_parse(version_str(r.stdout)[1])))>>
    ELSE <<>>

CheckClangCore(r) ==
    /\ pc = "check_clang"
    /\ sys' = Append(sys, SysEvent("probe", 0, <<ClangPath, <<"--version">>>>, r))
    /\ IF check_clang(r, skip_clang_version_checks).kind # "None"
       THEN /\ err' = check_clang(r, skip_clang_version_checks)
            /\ Return(1)
       ELSE /\ pc' = "compile"
            /\ UNCHANGED <<ret, err>>
    /\ UNCHANGED <<fixed, to_compile, set, i, k>>

\* Lines 59-61 and 165.
CheckClangLines(dbg, r) ==
    check_clang_prints(dbg, r, skip_clang_version_checks)
        \o (IF check_clang(r, skip_clang_version_checks).kind # "None"
            THEN <<ErrOut(ClangPath \o <<" is invalid: ">>
                            \o check_clang(r, skip_clang_version_checks).msg)>>
            ELSE <<>>)

CheckClang ==
    \E r \in ProbeResults : CheckClangCore(r) /\ Prints(CheckClangLines(debug, r))

(***************************************************************************)
(* compile, lines 78-133, one descriptor of its loop per step              *)
(***************************************************************************)
\* The architecture name passed through as it is.
arch_unmapped == ARCH

\* Lines 79-83.
arch == IF ARCH = "x86_64" THEN "x86" ELSE ARCH

\* Lines 86-90: the stem with ".o" pushed onto it.
dest_name(prog) == file_stem(prog.path) \o <<".o">>

\* Lines 96-97.
dest_path(prog) == join(prog.out, dest_name(prog))

\* The arguments with the output named ahead of the source.
CompileArgsOutputFirst(prog) ==
    << <<"-g">>, <<"-O2">>, <<"-target">>, <<"bpf">>, <<"-c">>,
       <<"-D__TARGET_ARCH_", arch>>, <<"-o">>, as_os_str(dest_path(prog)),
       as_os_str(prog.path) >>

\* Lines 105-114: the arguments after the program name, in order.
CompileArgs(prog) ==
    << <<"-g">>, <<"-O2">>, <<"-target">>, <<"bpf">>, <<"-c">>,
       <<"-D__TARGET_ARCH_", arch>>, as_os_str(prog.path), <<"-o">>,
       as_os_str(dest_path(prog)) >>

\* Lines 118-128.
CompileFailedMsg(prog, r) ==
    <<"Failed to compile prog=">> \o dest_name(prog)
        \o <<" with status=", "exit status: 1", "\n", "stdout=", "\n">> \o r.stdout
        \o <<"\n", "stderr=", "\n">> \o r.stderr \o <<"\n">>

\* The batch walked from its end.
nth_from_end(progs, n) == progs[Len(progs) - n + 1]

\* Line 85: the n-th descriptor `for prog in progs` yields.
nth_prog(progs, n) == progs[n]

\* compile returns Err(e), and build returns 1 (lines 171-174).
CompileErr(e) ==
    /\ err' = e
    /\ Return(1)
    /\ UNCHANGED k

\* The result of create_dir_all dropped.
create_dir_unchecked(dir_ok) == FALSE

\* Line 99: the `?` on create_dir_all returns its error.
create_dir_fails(dir_ok) == ~dir_ok

NoStemMsg(prog) ==
    <<"Could not calculate destination name for prog=">> \o as_os_str(prog.path)

CompileProgCore(dir_ok, r) ==
    /\ pc = "compile"
    /\ k <= Len(to_compile)
    /\ LET prog == nth_prog(to_compile, k)
           mkdir == SysEvent("mkdir", k, <<<<prog.out>>>>, MkdirResult(dir_ok))
           run == SysEvent("compile", k, <<ClangPath>> \o CompileArgs(prog), r)
       IN  IF file_stem(prog.path) = <<>>
           THEN /\ CompileErr(Error("InvalidSourceName", NoStemMsg(prog)))
                /\ UNCHANGED sys
           ELSE IF create_dir_fails(dir_ok)
           THEN /\ sys' = Append(sys, mkdir)
                /\ CompileErr(Error("DirectoryCreationFailed", <<"Permission denied">>))
           ELSE IF ~r.started
           THEN /\ sys' = sys \o <<mkdir, run>>
                /\ CompileErr(Error("SpawnFailed", <<"No such file or directory">>))
           ELSE IF r.success
           THEN /\ sys' = sys \o <<mkdir, run>>
                /\ k' = k + 1
                /\ UNCHANGED <<pc, ret, err>>
           ELSE IF valid_utf8(r.stdout) /\ valid_utf8(r.stderr)
           THEN /\ sys' = sys \o <<mkdir, run>>
                /\ CompileErr(Error("CompilationFailed", CompileFailedMsg(prog, r)))
           ELSE \* String::from_utf8(..).unwrap() of Err (lines 126-127)
                /\ sys' = sys \o <<mkdir, run>>
                /\ Panic
                /\ UNCHANGED <<k, err>>
    /\ UNCHANGED <<fixed, to_compile, set, i>>

\* Line 172: build prints the error of compile.
FailedLine(msg) == ErrOut(<<"Failed to compile progs: ">> \o msg)

\* Lines 101-103 and 172.
CompileLines(dbg, dir_ok, r) ==
    LET prog == nth_prog(to_compile, k)
        building == IF dbg THEN <<Out(<<"Building ">> \o as_os_str(prog.path))>> ELSE <<>>
    IN  IF file_stem(prog.path) = <<>> THEN <<FailedLine(NoStemMsg(prog))>>
        ELSE IF create_dir_fails(dir_ok) THEN <<FailedLine(<<"Permission denied">>)>>
        ELSE IF ~r.started THEN building \o <<FailedLine(<<"No such file or directory">>)>>
        ELSE IF r.success THEN building
        ELSE IF valid_utf8(r.stdout) /\ valid_utf8(r.stderr)
        THEN building \o <<FailedLine(CompileFailedMsg(prog, r))>>
        ELSE building

CompileProg ==
    \E dir_ok \in BOOLEAN, r \in CompileResults :
        CompileProgCore(dir_ok, r) /\ Prints(CompileLines(debug, dir_ok, r))

\* The loop is over: Ok(()), and build returns 0 (line 170).
CompileOkCore ==
    /\ pc = "compile"
    /\ k > Len(to_compile)
    /\ Return(0)
    /\ UNCHANGED <<fixed, to_compile, set, i, k, sys, err>>

CompileOk == CompileOkCore /\ Prints(<<>>)

Next ==
    \/ Discover
    \/ CheckProg
    \/ CheckProgsOk
    \/ CheckClang
    \/ CompileProg
    \/ CompileOk

Spec == Init /\ [][Next]_vars

(***************************************************************************)
(* build handed descriptors that metadata::get did not vet: a source path  *)
(* that terminates in ".." has no file name and no stem.                   *)
(***************************************************************************)
NoStemProg == UnprocessedProg(MkPath("s1", <<".", ".">>), "o1")

UnvettedResults ==
    {[ok |-> TRUE, progs |-> b] : b \in SeqsUpTo(Descriptors \cup {NoStemProg}, MaxProgs)}

InitUnvetted == InitWith(UnvettedResults)

SpecUnvetted == InitUnvetted /\ [][Next]_vars

(***************************************************************************)
(* Vocabulary of the properties                                            *)
(***************************************************************************)
ToolchainErrors == {"ToolchainUnavailable", "InvalidVersionFormat", "ToolchainTooOld"}

\* Two positions of the batch whose output paths, as the invoker computes
\* them, are the same.
SameOutput(a, b) ==
    /\ a \in DOMAIN to_compile /\ b \in DOMAIN to_compile /\ a < b
    /\ dest_path(to_compile[a]) = dest_path(to_compile[b])

HasCollision == \E a, b \in DOMAIN to_compile : SameOutput(a, b)

\* check_progs went through the whole batch and returned Ok.
UniquePassed == discovered.ok /\ pc \in {"check_progs", "check_clang", "compile", "done", "panicked"}
                  /\ to_compile # <<>> /\ i > Len(to_compile)

\* The probe's output carries, as third token of its first line, a version
\* at or above the floor.
VersionAccepted(stdout) ==
    /\ version_str(stdout) # <<>>
    /\ version_parses(version_str(stdout)[1])
    /\ ~version_lt(version_parse(version_str(stdout)[1]), MinVersion)

ProbeRan == sys # <<>> /\ sys[1].ev = "probe"

ProbeFailed == ProbeRan /\ (~sys[1].started \/ ~sys[1].success)

\* The --version probe ran and was accepted.
ToolchainPassed ==
    /\ ProbeRan /\ sys[1].started /\ sys[1].success
    /\ (skip_clang_version_checks \/ VersionAccepted(sys[1].stdout))

Spawns == {n \in DOMAIN sys : sys[n].ev \in {"probe", "compile"}}

Compiles == {n \in DOMAIN sys : sys[n].ev = "compile"}

\* Every descriptor's compile subprocess ran and exited with status zero.
AllCompiled ==
    \A j \in DOMAIN to_compile :
        \E n \in Compiles : sys[n].prog = j /\ sys[n].started /\ sys[n].success

(***************************************************************************)
(* C1: build returns 0 exactly when discovery succeeded with a non-empty   *)
(* batch, both validators passed and every compile subprocess exited with  *)
(* status zero; in every other run it returns 1, and no run ends without a *)
(* status.                                                                 *)
(***************************************************************************)
C1_ExitStatusContract ==
    /\ pc # "panicked"
    /\ pc = "done" =>
         /\ ret \in {<<0>>, <<1>>}
         /\ ret = <<0>> <=>
              (discovered.ok /\ discovered.progs # <<>> /\ UniquePassed
                 /\ ToolchainPassed /\ AllCompiled)

(***************************************************************************)
(* C2: a batch in which two descriptors have the same output path          *)
(* out/(stem + ".o") is rejected by check_progs, before the probe or any   *)
(* compile is spawned.                                                     *)
(***************************************************************************)
C2_CollisionRejected ==
    (pc # "discover" /\ HasCollision) =>
        /\ pc \in {"check_progs", "done"}
        /\ sys = <<>>
        /\ pc = "done" => (ret = <<1>> /\ err.kind = "DuplicateOutput")

(***************************************************************************)
(* C3: a batch whose output paths are pairwise distinct passes             *)
(* check_progs; the same stem under two output directories is no duplicate.*)
(***************************************************************************)
C3_UniqueAccepted ==
    (pc # "discover" /\ discovered.ok /\ ~HasCollision) =>
        /\ err.kind # "DuplicateOutput"
        /\ pc = "check_progs" => ret = <<>>
        /\ (pc \notin {"check_progs"} /\ to_compile # <<>>) => i > Len(to_compile)

C3_Witness ==
    /\ pc = "check_clang"
    /\ \E a, b \in DOMAIN to_compile :
         /\ a < b
         /\ file_stem(to_compile[a].path) = file_stem(to_compile[b].path)
         /\ to_compile[a].out # to_compile[b].out

(***************************************************************************)
(* C4: when check_progs fails, the descriptor it reports is the first one  *)
(* in batch order whose output path equals that of an earlier descriptor,  *)
(* the error names its source file name, and nothing after it is examined  *)
(* or reported.                                                            *)
(***************************************************************************)
\* The first position whose output path an earlier position already has.
FirstCollision ==
    CHOOSE b \in DOMAIN to_compile :
        /\ \E a \in DOMAIN to_compile : SameOutput(a, b)
        /\ \A c \in DOMAIN to_compile :
             (\E a \in DOMAIN to_compile : SameOutput(a, c)) => b <= c

C4_FirstDuplicateReported ==
    err.kind = "DuplicateOutput" =>
        /\ HasCollision
        /\ i = FirstCollision
        /\ err.msg = <<"Duplicate prog=">> \o file_name(to_compile[i].path) \o <<" detected">>
        /\ Cardinality(set) = i - 1
        /\ Cardinality({n \in DOMAIN console : console[n].stream = "stderr"}) = 1

(***************************************************************************)
(* C5: an empty discovered batch makes build return 1 with the toolchain   *)
(* validator never invoked and no subprocess spawned, debug set or not.    *)
(***************************************************************************)
C5_EmptyBatch ==
    (pc # "discover" /\ discovered.ok /\ discovered.progs = <<>>) =>
        /\ pc = "done" /\ ret = <<1>>
        /\ err.kind = "EmptyProgramSet"
        /\ sys = <<>>
        /\ set = {} /\ i = 1 /\ k = 1

C5_Witness ==
    /\ pc = "done" /\ debug
    /\ discovered.ok /\ discovered.progs = <<>>

(***************************************************************************)
(* C6: the stages run in the order discover, check_progs, check_clang,     *)
(* compile, each only after the one before succeeded: the probe is spawned *)
(* only after check_progs passed, and no directory is created and no       *)
(* compile is spawned unless the probe was accepted in the same run.       *)
(***************************************************************************)
C6_StageOrder ==
    /\ pc = "check_progs" => (discovered.ok /\ to_compile # <<>> /\ sys = <<>>)
    /\ pc = "check_clang" => (UniquePassed /\ sys = <<>>)
    /\ pc = "compile" => (UniquePassed /\ ToolchainPassed)
    /\ sys # <<>> =>
         /\ UniquePassed
         /\ sys[1].ev = "probe"
         /\ \A n \in DOMAIN sys : n > 1 => sys[n].ev \in {"mkdir", "compile"}
    /\ (\E n \in DOMAIN sys : sys[n].ev \in {"mkdir", "compile"}) => ToolchainPassed

C6_Witness ==
    /\ pc = "done"
    /\ \E n \in Compiles : sys[n].started

(***************************************************************************)
(* C7: once a compile subprocess exits non-zero no later program is        *)
(* attempted (no directory, no subprocess), and the batch reports that     *)
(* first failure and only it.                                              *)
(***************************************************************************)
C7_FirstFailureStops ==
    \A n \in Compiles :
        (sys[n].started /\ ~sys[n].success) =>
            /\ n = Len(sys)
            /\ pc = "done" /\ ret = <<1>>
            /\ err.kind = "CompilationFailed"
            /\ SubSeq(err.msg, 1, 1 + Len(dest_name(to_compile[sys[n].prog])))
                 = <<"Failed to compile prog=">> \o dest_name(to_compile[sys[n].prog])
            /\ Cardinality({m \in DOMAIN console : console[m].stream = "stderr"}) = 1

(***************************************************************************)
(* C8: compiles are spawned one at a time in batch order: the j-th compile *)
(* of a run is for the j-th descriptor, a later one is started only after  *)
(* the one before exited with status zero, and no program is compiled      *)
(* twice.                                                                  *)
(***************************************************************************)
IsCompile(e) == e.ev = "compile"

C8_SequentialInOrder ==
    LET cs == SelectSeq(sys, IsCompile)
    IN  /\ Len(cs) <= Len(to_compile)
        /\ \A j \in DOMAIN cs :
             /\ cs[j].prog = j
             /\ cs[j].args[8] = as_os_str(to_compile[j].path)
             /\ j < Len(cs) => (cs[j].started /\ cs[j].success)

C8_Witness ==
    /\ Cardinality(Compiles) >= 2
    /\ to_compile[1].path # to_compile[2].path

(***************************************************************************)
(* C9: a probe that cannot be spawned or exits non-zero makes check_clang  *)
(* fail as ToolchainUnavailable whatever skip_clang_version_checks is, and *)
(* build returns 1 with no compile spawned.                                *)
(***************************************************************************)
C9_ProbeFailure ==
    ProbeFailed =>
        /\ err.kind = "ToolchainUnavailable"
        /\ pc = "done" /\ ret = <<1>>
        /\ Compiles = {}
        /\ Len(sys) = 1

C9_Witness ==
    /\ ProbeFailed
    /\ sys[1].started
    /\ skip_clang_version_checks

(***************************************************************************)
(* C10: with skip_clang_version_checks set and a probe that exits with     *)
(* status zero, check_clang succeeds whatever the probe printed (nothing,  *)
(* no version, a version below the floor).                                 *)
(***************************************************************************)
C10_SkipIgnoresOutput ==
    (ProbeRan /\ skip_clang_version_checks /\ sys[1].started /\ sys[1].success) =>
        /\ err.kind \notin ToolchainErrors
        /\ Len(sys) = 1 => (pc = "compile" /\ ret = <<>> /\ err = NoError)

C10_Witness ==
    /\ ProbeRan /\ skip_clang_version_checks /\ sys[1].started /\ sys[1].success
    /\ ~VersionAccepted(sys[1].stdout)
    /\ sys[1].stdout = <<>>
    /\ pc = "compile"

(***************************************************************************)
(* C11: with the check not skipped and a probe whose third token parses as *)
(* a version v, check_clang fails as ToolchainTooOld exactly when v is     *)
(* below 10.0.0 in semantic-version precedence (a pre-release of 10.0.0 is *)
(* below it) and succeeds otherwise: 9.0.0 fails, 12.0.1 succeeds.         *)
(***************************************************************************)
\* v precedes 10.0.0: a smaller major number, or 10.0.0 with a pre-release.
BelowFloor(v) ==
    \/ v.major < 10
    \/ v.major = 10 /\ v.minor = 0 /\ v.patch = 0 /\ v.pre # <<>>

\* The probe ran with the check not skipped and printed a version.
VersionChecked ==
    /\ ProbeRan /\ ~skip_clang_version_checks
    /\ sys[1].started /\ sys[1].success
    /\ version_str(sys[1].stdout) # <<>>
    /\ version_parses(version_str(sys[1].stdout)[1])

Detected == version_parse(version_str(sys[1].stdout)[1])

C11_VersionFloor ==
    VersionChecked =>
        /\ err.kind = "ToolchainTooOld" <=> BelowFloor(Detected)
        /\ BelowFloor(Detected) => (pc = "done" /\ ret = <<1>> /\ Len(sys) = 1)
        /\ ~BelowFloor(Detected) => err.kind \notin ToolchainErrors
        /\ (~BelowFloor(Detected) /\ Len(sys) = 1) => (pc = "compile" /\ ret = <<>>)

C11_Witness ==
    /\ VersionChecked
    /\ Detected = [major |-> 10, minor |-> 0, patch |-> 0, pre |-> <<"rc1">>]
    /\ err.kind = "ToolchainTooOld"

(***************************************************************************)
(* C12: a ToolchainTooOld error message includes the detected version and  *)
(* the required version 10.0.0 and mentions that the check can be skipped. *)
(***************************************************************************)
\* sub occurs in s as a run of consecutive atoms.
Contains(s, sub) ==
    \E a \in 0..(Len(s) - Len(sub)) : SubSeq(s, a + 1, a + Len(sub)) = sub

SkipHint == " is too old. Use --skip-clang-version-checks to skip verion check"

LastLine == console[Len(console)]

C12_MessageNamesBothVersions ==
    err.kind = "ToolchainTooOld" =>
        /\ Contains(err.msg, version_str(sys[1].stdout)[1])
        /\ Contains(err.msg, <<"10", ".", "0", ".", "0">>)
        /\ Contains(err.msg, <<SkipHint>>)

\* As the code has it: the message is "version <detected> is too old. Use
\* --skip-clang-version-checks to skip verion check", printed by build after
\* "<clang> is invalid: "; the required version is not part of it.
C12_MessageNamesDetectedVersion ==
    err.kind = "ToolchainTooOld" =>
        /\ err.msg = <<"version ">> \o version_str(sys[1].stdout)[1] \o <<SkipHint>>
        /\ LastLine = ErrOut(ClangPath \o <<" is invalid: ">> \o err.msg)

C12_Witness ==
    /\ err.kind = "ToolchainTooOld"
    /\ version_str(sys[1].stdout)[1] = <<"9", ".", "0", ".", "0">>
    /\ pc = "done"

(***************************************************************************)
(* C13: the preprocessor definition of every compile is __TARGET_ARCH_x86  *)
(* when ARCH is "x86_64" and __TARGET_ARCH_<ARCH> for every other value,   *)
(* the same for every program of the batch.                                *)
(***************************************************************************)
C13_TargetArch ==
    \A n \in Compiles :
        /\ ARCH = "x86_64" => sys[n].args[7] = <<"-D__TARGET_ARCH_", "x86">>
        /\ ARCH # "x86_64" => sys[n].args[7] = <<"-D__TARGET_ARCH_", ARCH>>
        /\ \A m \in Compiles : sys[m].args[7] = sys[n].args[7]

C13_Witness ==
    /\ ARCH = "x86_64"
    /\ Cardinality(Compiles) >= 2

(***************************************************************************)
(* C14: whenever a compile subprocess exits non-zero, whatever it wrote    *)
(* (bytes that are no valid text included), compile fails with a           *)
(* CompilationFailed error that carries the destination file name, the     *)
(* exit status and the whole captured standard output and standard error,  *)
(* and build returns 1.                                                    *)
(***************************************************************************)
\* The text carries the captured bytes, as they are or lossily decoded.
Carries(text, bytes) ==
    Contains(text, bytes) \/ Contains(text, from_utf8_lossy(bytes))

C14_CompilationFailedCarriesOutput ==
    \A n \in Compiles :
        (sys[n].started /\ ~sys[n].success) =>
            /\ err.kind = "CompilationFailed"
            /\ Contains(err.msg, dest_name(to_compile[sys[n].prog]))
            /\ Contains(err.msg, <<"exit status: 1">>)
            /\ Carries(err.msg, sys[n].stdout)
            /\ Carries(err.msg, sys[n].stderr)
            /\ pc = "done" /\ ret = <<1>>

(***************************************************************************)
(* C15: with the check not skipped, the version check_clang parses is the  *)
(* third whitespace-delimited token of the first line of the output, for   *)
(* every output (runs of spaces and tabs between tokens included); with no *)
(* first line, no third token or a token that is no version it fails as    *)
(* InvalidVersionFormat.                                                   *)
(***************************************************************************)
Whitespace == {" ", "\t"}

\* The length of the leading run of atoms of s that are not whitespace.
RECURSIVE WordLen(_)
WordLen(s) ==
    IF s = <<>> \/ Head(s) \in Whitespace THEN 0 ELSE 1 + WordLen(Tail(s))

\* The whitespace-delimited tokens of a line.
RECURSIVE WsTokens(_)
WsTokens(s) ==
    IF s = <<>> THEN <<>>
    ELSE IF Head(s) \in Whitespace THEN WsTokens(Tail(s))
    ELSE <<SubSeq(s, 1, WordLen(s))>> \o WsTokens(SubSeq(s, WordLen(s) + 1, Len(s)))

FirstLineTokens == WsTokens(split(from_utf8_lossy(sys[1].stdout), "\n")[1])

C15_ThirdWhitespaceToken ==
    (ProbeRan /\ ~skip_clang_version_checks /\ sys[1].started /\ sys[1].success) =>
        IF Len(FirstLineTokens) < 3 \/ ~version_parses(FirstLineTokens[3])
        THEN err.kind = "InvalidVersionFormat"
        ELSE /\ err.kind # "InvalidVersionFormat"
             /\ err.kind = "ToolchainTooOld" <=> BelowFloor(version_parse(FirstLineTokens[3]))

(***************************************************************************)
(* C16: the output directory of a program is ensured before its compile    *)
(* is spawned; when creating it fails the whole batch fails: no compile    *)
(* for that program or a later one, and build returns 1.                   *)
(***************************************************************************)
C16_DirectoryBeforeCompile ==
    /\ \A n \in Compiles :
         /\ n > 1
         /\ sys[n - 1].ev = "mkdir"
         /\ sys[n - 1].prog = sys[n].prog
         /\ sys[n - 1].args = <<<<to_compile[sys[n].prog].out>>>>
         /\ sys[n - 1].success
    /\ \A n \in DOMAIN sys :
         (sys[n].ev = "mkdir" /\ ~sys[n].success) =>
             /\ n = Len(sys)
             /\ pc = "done" /\ ret = <<1>>
             /\ err.kind = "DirectoryCreationFailed"

C16_Witness ==
    /\ \E n \in DOMAIN sys : sys[n].ev = "mkdir" /\ ~sys[n].success /\ sys[n].prog = 2
    /\ pc = "done"

(***************************************************************************)
(* C17: every compile is run with exactly the arguments -g, -O2, -target,  *)
(* bpf, -c, -D__TARGET_ARCH_<arch>, the source path, -o and the            *)
(* destination out/(stem + ".o"), in this order, for every program.        *)
(***************************************************************************)
C17_ExactArguments ==
    \A n \in Compiles :
        LET p == to_compile[sys[n].prog]
        IN  /\ sys[n].args[1] = ClangPath
            /\ SubSeq(sys[n].args, 2, Len(sys[n].args)) =
                 << <<"-g">>, <<"-O2">>, <<"-target">>, <<"bpf">>, <<"-c">>,
                    <<"-D__TARGET_ARCH_", IF ARCH = "x86_64" THEN "x86" ELSE ARCH>>,
                    <<p.path.dir, "/">> \o p.path.name,
                    <<"-o">>,
                    <<p.out, "/">> \o file_stem(p.path) \o <<".o">> >>

C17_Witness ==
    /\ pc = "done" /\ ret = <<0>>
    /\ Cardinality(Compiles) >= 2
    /\ to_compile[1].out # to_compile[2].out

(***************************************************************************)
(* C18: when a descriptor's source path has no stem, build fails with an   *)
(* InvalidSourceName error and status 1, not by abnormal termination, and  *)
(* no subprocess is spawned for that program or a later one.               *)
(***************************************************************************)
NoStemAt == {j \in DOMAIN to_compile : file_stem(to_compile[j].path) = <<>>}

CoreNext(dbg) ==
    \/ DiscoverCore(dbg)
    \/ CheckProgCore
    \/ CheckProgsOkCore
    \/ \E r \in ProbeResults : CheckClangCore(r)
    \/ \E dir_ok \in BOOLEAN, r \in CompileResults : CompileProgCore(dir_ok, r)
    \/ CompileOkCore

C19_DebugIsObservational == [][\A dbg \in BOOLEAN : CoreNext(dbg)]_vars

C19_Witness ==
    /\ debug
    /\ pc = "done" /\ ret = <<0>>
    /\ Cardinality({n \in DOMAIN console : console[n].stream = "stdout"}) >= 3
    /\ Compiles # {}

(***************************************************************************)
(* C20: the stage only moves forward along discover, check_progs,          *)
(* check_clang, compile, done, and a step that stays in its stage moves on *)
(* to the next program (nothing is retried); build never stops short of    *)
(* done, where it has a status; and a batch of n programs costs at most    *)
(* n + 1 subprocesses: one --version probe, at most one compile each.      *)
(***************************************************************************)
Stages == <<"discover", "check_progs", "check_clang", "compile", "done">>

\* The position of a stage in Stages; a run that panicked is in none of them.
Rank(stage) ==
    IF \E n \in DOMAIN Stages : Stages[n] = stage
    THEN CHOOSE n \in DOMAIN Stages : Stages[n] = stage
    ELSE 0

Probes == {n \in DOMAIN sys : sys[n].ev = "probe"}

SpawnBudget ==
    /\ Cardinality(Spawns) <= Len(to_compile) + 1
    /\ Cardinality(Probes) <= 1
    /\ \A m, n \in Compiles : sys[m].prog = sys[n].prog => m = n

C20_ForwardToDone ==
    [][/\ Rank(pc') >= Rank(pc)
       /\ Rank(pc') = Rank(pc) => (i' > i \/ k' > k)
       /\ \/ pc' = "done" /\ ret' \in {<<0>>, <<1>>}
          \/ (ENABLED Next)'
       /\ SpawnBudget']_vars


==========================================================================
